---- MODULE Spec2Model ----
(***************************************************************************)
(* Model of the Amazon Omics tutorial notebooks: the reference-store       *)
(* list-then-create cell, the import-job submission cells, the botocore    *)
(* waiter cells, the part download cells, the manifest cells and the       *)
(* variant / annotation store cells.                                       *)
(*                                                                         *)
(* Each notebook cell is a sequence of remote calls; one action models one *)
(* remote call together with the local code that follows it up to the next *)
(* remote call.  The remote service is the environment.                    *)
(***************************************************************************)
EXTENDS Integers, Sequences, FiniteSets, TLC

VARIABLES
    \* ---- reference store cell (storage notebook) ----
    refStores,      \* remote: the reference stores of the account/region, in list order
    cellPc,         \* per notebook session: position inside the list-then-create cell
    cellRuns,       \* per notebook session: the finished runs of the cell, oldest first
    \* ---- import job submission cells ----
    import_sources, \* storage notebook: fastq_sources + cram_sources
    readsetCell,    \* outcome of the start_read_set_import_job cell
    readsetJobs,    \* remote: the read set import jobs, each its list of sources
    vcf_list,       \* analytics notebook: the source VCFs
    loopIdx,        \* enumerate() index of the variant import loop (0-based)
    loopPc,         \* position of the variant import loop
    variantJobs,    \* remote: the variant import jobs, each its list of items
    started,        \* the "[job i of N] started import job" lines printed so far
    \* ---- waiter cell (reference_import_job_completed) ----
    jobStatus,      \* remote: the status field of the import job
    wpc,            \* position of the waiter.wait call: "idle", "waiting", "done"
    max_attempts,   \* the waiter's MaxAttempts
    attempts,       \* polls made so far (num_attempts)
    polled,         \* the statuses the polls observed, oldest first
    waitResult,     \* how waiter.wait ended
    printed,        \* what the waiter cell printed once the wait had ended
    issued,         \* the operations the waiter has sent to the service
    statusAtReturn, \* the job's status right after the poll that ended the wait
    cancelRequested,  \* a cancellation was signalled while the wait was in progress
    pollsAfterCancel, \* polls made after that signal
    \* ---- part download cell (get_reference) ----
    refParts,       \* remote: per channel of the reference, the byte length of each part
    files,          \* local files: 'reference.part.fa' and 'reference.part.fai'
    written,        \* per local file, the bytes the latest f.write wrote
    dlPc,           \* position of the download cell
    dlRuns,         \* how the runs of the download cell ended, oldest first
    dlError,        \* the exception that ended the latest failed run of the cell
    \* ---- manifest cells (cram_sources, fastq_sources, import manifest) ----
    cram_uris,      \* SOURCE_S3_URIS['reads']['cram']
    fastq_dir,      \* the directory segments the FASTQ URIs share
    fastq_uris,     \* SOURCE_S3_URIS['reads']['fastq'], each URI by its (read, part)
    cram_sources,   \* the list the CRAM cell builds
    fastq_sources,  \* the list the FASTQ cell builds
    manifest,       \* fastq_sources + cram_sources
    job_sources,    \* remote: the sources of the read set import job made from the manifest
    mpc,            \* the manifest cell to run next
    mError,         \* the exception that stopped the manifest cells
    \* ---- variant / annotation store cells (create, '..._store_created' waiter) ----
    vsKind,         \* which cell group runs: "variant", "annotation" or "workflow"
    vsStatus,       \* remote: the status of the store, "NONE" before it exists
    vsPc,           \* position in the create / wait / get cells
    vsMax,          \* the waiter's MaxAttempts
    vsAttempts,     \* polls made so far
    vsPolled,       \* the statuses the polls observed, oldest first
    vsPrinted,      \* what the waiter cell printed
    var_store,      \* var_store / ann_store / workflow: the status in the answer it holds
    \* ---- read set import and read cells (storage notebook) ----
    rsJob,          \* remote: status of the read set import job, "NONE" before it exists
    rsPending,      \* remote: sources of the job not yet imported
    rsReadSets,     \* remote: number of read sets in the sequence store
    rsObserved,     \* the job statuses the notebook has fetched, oldest first
    rsInProgress,   \* the answer of the latest list_read_set_import_jobs(IN_PROGRESS)
    readset,        \* the notebook's readset: None, or the first listed read set
    rsReadAt,       \* the job's status when the read of the read set began
    rsPc,           \* the read set cell to run next
    \* ---- run group cells (workflow notebook) ----
    runStatus,      \* remote: the status of each run of the run group, by run id
    rg_runs,        \* the notebook's rg_runs: the ids of the runs started, in order
    rgPc,           \* position of the start_run loop: "loop", "done", "raised"
    listing,        \* what the latest list_runs cell showed: (id, status) pairs
    listedAt,       \* the runs' statuses at the moment of that list_runs call
    listings,       \* how often the list_runs cell has been run
    \* ---- run cell (workflow notebook) ----
    runState,       \* remote: the status of the run the cell started
    rcPc,           \* position of the run cell
    rcAttempts,     \* polls made by the wait in progress
    rcSeen,         \* the statuses the cell's polls have observed
    rcPrinted,      \* what the cell has printed
    \* ---- Athena workgroup cell (analytics notebook) ----
    workgroups,     \* remote: the account's Athena workgroups, as listed
    athena_workgroup, \* the notebook's athena_workgroup
    awListed,       \* the list the latest run of the cell received
    awCreated,      \* how many workgroups the cell has created
    awRuns,         \* how often the cell has been run
    awWorkgroupArg, \* the workgroup the query was given
    awPc            \* position: "select", "selected", "raised", "queried", ...

storeVars  == <<refStores, cellPc, cellRuns>>
submitVars == <<import_sources, readsetCell, readsetJobs, vcf_list, loopIdx, loopPc,
                variantJobs, started>>
waitVars   == <<jobStatus, wpc, max_attempts, attempts, polled, waitResult, printed, issued,
                statusAtReturn, cancelRequested, pollsAfterCancel>>
readVars   == <<refParts, files, written, dlPc, dlRuns, dlError>>
manifestVars == <<cram_uris, fastq_dir, fastq_uris, cram_sources, fastq_sources,
                  manifest, job_sources, mpc, mError>>
variantStoreVars == <<vsKind, vsStatus, vsPc, vsMax, vsAttempts, vsPolled, vsPrinted,
                      var_store>>
readSetVars == <<rsJob, rsPending, rsReadSets, rsObserved, rsInProgress, readset,
                 rsReadAt, rsPc>>
runGroupVars == <<runStatus, rg_runs, rgPc, listing, listedAt, listings>>
runCellVars == <<runState, rcPc, rcAttempts, rcSeen, rcPrinted>>
athenaVars == <<workgroups, athena_workgroup, awListed, awCreated, awRuns,
                awWorkgroupArg, awPc>>
vars == <<storeVars, submitVars, waitVars, readVars, manifestVars, variantStoreVars,
          readSetVars, runGroupVars, runCellVars, athenaVars>>

notStoreVars  == <<submitVars, waitVars, readVars, manifestVars, variantStoreVars,
                   readSetVars, runGroupVars, runCellVars, athenaVars>>
notSubmitVars == <<storeVars, waitVars, readVars, manifestVars, variantStoreVars,
                   readSetVars, runGroupVars, runCellVars, athenaVars>>
notWaitVars   == <<storeVars, submitVars, readVars, manifestVars, variantStoreVars,
                   readSetVars, runGroupVars, runCellVars, athenaVars>>
notReadVars   == <<storeVars, submitVars, waitVars, manifestVars, variantStoreVars,
                   readSetVars, runGroupVars, runCellVars, athenaVars>>
notManifestVars == <<storeVars, submitVars, waitVars, readVars, variantStoreVars,
                     readSetVars, runGroupVars, runCellVars, athenaVars>>
notVariantStoreVars == <<storeVars, submitVars, waitVars, readVars, manifestVars,
                         readSetVars, runGroupVars, runCellVars, athenaVars>>
notReadSetVars == <<storeVars, submitVars, waitVars, readVars, manifestVars,
                    variantStoreVars, runGroupVars, runCellVars, athenaVars>>
notRunGroupVars == <<storeVars, submitVars, waitVars, readVars, manifestVars,
                     variantStoreVars, readSetVars, runCellVars, athenaVars>>
notRunCellVars == <<storeVars, submitVars, waitVars, readVars, manifestVars,
                    variantStoreVars, readSetVars, runGroupVars, athenaVars>>
notAthenaVars == <<storeVars, submitVars, waitVars, readVars, manifestVars,
                   variantStoreVars, readSetVars, runGroupVars, runCellVars>>

None == "None"

\* waiter.wait has not ended
NoResult == [kind |-> None, reason |-> None, last_response |-> None]

\* no run of the download cell has failed
NoError == [channel |-> None, stage |-> None, part |-> 0]

\* ------------------------------------------------------------------ bounds
MaxCellRuns == 3      \* how often one session runs the reference store cell
MaxSources  == 3      \* length of the short source lists
MaxAttempts == 4      \* largest MaxAttempts a wait is started with
MaxParts    == 3      \* most parts a channel has
MaxDownloadRuns == 2  \* how often the download cell is run
MaxFastqParts == 2    \* most parts per read among the FASTQ URIs
MaxCrams    == 2      \* most CRAM URIs
MaxListings == 2      \* how often the list_runs cell is run
MaxWorkgroups == 2    \* most Athena workgroups the account starts with
MaxSelectRuns == 2    \* how often the Athena workgroup cell is run

\* ------------------------------------------------------ helper operators
RECURSIVE Flatten(_)
Flatten(ss) == IF ss = <<>> THEN <<>> ELSE Head(ss) \o Flatten(Tail(ss))

Ceil(a, b) == (a + b - 1) \div b

Last(s) == s[Len(s)]

(***************************************************************************)
(* Reference store: get_ref_store_id and the list-then-create cell         *)
(***************************************************************************)
Sessions == {"s1", "s2"}

StoreIdPool == <<"rs-1", "rs-2", "rs-3", "rs-4", "rs-5", "rs-6", "rs-7", "rs-8">>

\* client.list_reference_stores(maxResults=10): the answers the service can give.
\* With no store the 'referenceStores' key is absent or holds an empty list.
ListReferenceStores(stores) ==
    IF stores = <<>>
    THEN { [present |-> FALSE, referenceStores |-> <<>>],
           [present |-> TRUE,  referenceStores |-> <<>>] }
    ELSE { [present |-> TRUE,  referenceStores |-> stores] }

\* Mutant: the helper never finds a store.
GetRefStoreIdBlind(resp) == [raised |-> FALSE, store_id |-> None]

\* get_ref_store_id: resp.get('referenceStores'); store_id = None;
\* if list_of_stores != None: store_id = list_of_stores[0].get('id')
GetRefStoreId(resp) ==
    IF ~resp.present
    THEN [raised |-> FALSE, store_id |-> None]
    ELSE IF resp.referenceStores = <<>>
         THEN [raised |-> TRUE, store_id |-> None]     \* list_of_stores[0]: IndexError
         ELSE [raised |-> FALSE, store_id |-> resp.referenceStores[1]]

\* Mutant: the service lets a second reference store be created.
CreateReferenceStoreUnchecked(stores) ==
    [ok |-> TRUE, id |-> StoreIdPool[Len(stores) + 1]]

\* omics.create_reference_store: one reference store per region per account;
\* the service refuses a second one (botocore raises ClientError).
CreateReferenceStore(stores) ==
    IF stores = <<>>
    THEN [ok |-> TRUE,  id |-> StoreIdPool[1]]
    ELSE [ok |-> FALSE, id |-> None]

FinishRun(s, outcome, id, creates) ==
    /\ cellRuns' = [cellRuns EXCEPT ![s] =
                      Append(@, [outcome |-> outcome, id |-> id, creates |-> creates])]
    /\ cellPc' = [cellPc EXCEPT ![s] = "idle"]

\* `if get_ref_store_id(omics) == None:` - the list call and the test on its result
CheckRefStore(s) ==
    /\ cellPc[s] = "idle"
    /\ Len(cellRuns[s]) < MaxCellRuns
    /\ \E resp \in ListReferenceStores(refStores) :
         LET r == GetRefStoreId(resp) IN
           IF r.raised
           THEN FinishRun(s, "IndexError", None, 0)
           ELSE IF r.store_id = None
                THEN /\ cellPc' = [cellPc EXCEPT ![s] = "create"]
                     /\ UNCHANGED cellRuns
                ELSE FinishRun(s, "existing", r.store_id, 0)
    /\ UNCHANGED <<refStores, notStoreVars>>

\* `response = omics.create_reference_store(name='myReferenceStore')`
CreateRefStore(s) ==
    /\ cellPc[s] = "create"
    /\ LET res == CreateReferenceStore(refStores) IN
         IF res.ok
         THEN /\ refStores' = Append(refStores, res.id)
              /\ FinishRun(s, "created", res.id, 1)
         ELSE /\ UNCHANGED refStores
              /\ FinishRun(s, "ClientError", None, 1)
    /\ UNCHANGED notStoreVars

StoreInitVars ==
    /\ refStores \in {<<>>, <<StoreIdPool[1]>>}
    /\ cellPc = [s \in Sessions |-> "idle"]
    /\ cellRuns = [s \in Sessions |-> <<>>]

StoreIdle ==
    /\ refStores = <<>>
    /\ cellPc = [s \in Sessions |-> "idle"]
    /\ cellRuns = [s \in Sessions |-> <<>>]

SubmitIdle ==
    /\ import_sources = <<>>
    /\ readsetCell = "idle"
    /\ readsetJobs = <<>>
    /\ vcf_list = <<>>
    /\ loopIdx = 0
    /\ loopPc = "idle"
    /\ variantJobs = <<>>
    /\ started = <<>>

WaitIdle ==
    /\ jobStatus = "SUBMITTED"
    /\ wpc = "idle"
    /\ max_attempts = 1
    /\ attempts = 0
    /\ polled = <<>>
    /\ waitResult = NoResult
    /\ printed = <<>>
    /\ issued = {}
    /\ statusAtReturn = None
    /\ cancelRequested = FALSE
    /\ pollsAfterCancel = 0

Channels == {"SOURCE", "INDEX"}

\* The local file each channel's part is written to.
FileOf(ch) == IF ch = "SOURCE" THEN "reference.part.fa" ELSE "reference.part.fai"

FileNames == {FileOf(ch) : ch \in Channels}

ReadIdle ==
    /\ refParts = [ch \in Channels |-> <<>>]
    /\ files = [f \in FileNames |-> <<>>]
    /\ written = [f \in FileNames |-> 0]
    /\ dlPc = "idle"
    /\ dlRuns = <<>>
    /\ dlError = NoError

ManifestIdle ==
    /\ cram_uris = <<>>
    /\ fastq_dir = <<>>
    /\ fastq_uris = {}
    /\ cram_sources = <<>>
    /\ fastq_sources = <<>>
    /\ manifest = <<>>
    /\ job_sources = <<>>
    /\ mpc = "cram"
    /\ mError = None

VariantStoreIdle ==
    /\ vsKind = "variant"
    /\ vsStatus = "NONE"
    /\ vsPc = "create"
    /\ vsMax = 1
    /\ vsAttempts = 0
    /\ vsPolled = <<>>
    /\ vsPrinted = <<>>
    /\ var_store = None

ReadSetIdle ==
    /\ rsJob = "NONE"
    /\ rsPending = 0
    /\ rsReadSets = 0
    /\ rsObserved = <<>>
    /\ rsInProgress = FALSE
    /\ readset = None
    /\ rsReadAt = None
    /\ rsPc = "start"

\* The three inputs of the run group cell, one run each.
run_inputs == <<"Hello", "Bonjour", "Hola">>
\* The run ids the service may hand out.
RunIds == 1..Len(run_inputs)

RunGroupIdle ==
    /\ runStatus = [r \in RunIds |-> None]
    /\ rg_runs = <<>>
    /\ rgPc = "loop"
    /\ listing = <<>>
    /\ listedAt = <<>>
    /\ listings = 0

RunCellIdle ==
    /\ runState = None
    /\ rcPc = "start"
    /\ rcAttempts = 0
    /\ rcSeen = {}
    /\ rcPrinted = <<>>

\* `athena_workgroup = None`
NoWorkgroup == [type |-> "NoneType", Name |-> None, Engine |-> None]

AthenaIdle ==
    /\ workgroups = <<>>
    /\ athena_workgroup = NoWorkgroup
    /\ awListed = <<>>
    /\ awCreated = 0
    /\ awRuns = 0
    /\ awWorkgroupArg = None
    /\ awPc = "select"

StoreInit == StoreInitVars /\ SubmitIdle /\ WaitIdle /\ ReadIdle /\ ManifestIdle
             /\ VariantStoreIdle /\ ReadSetIdle /\ RunGroupIdle /\ RunCellIdle /\ AthenaIdle

StoreNext == \E s \in Sessions : CheckRefStore(s) \/ CreateRefStore(s)

SpecStore == StoreInit /\ [][StoreNext]_vars

(***************************************************************************)
(* Import job submission: the start_read_set_import_job cell and the       *)
(* start_variant_import_job loop                                           *)
(***************************************************************************)
\* "Each import job supports a maximum of 1000 read sets."
MAX_READ_SETS_PER_JOB == 1000

Ids(n) == [i \in 1..n |-> i]

SourceLens == (1..MaxSources) \cup {MAX_READ_SETS_PER_JOB, MAX_READ_SETS_PER_JOB + 1}

\* The answers the service can give to start_read_set_import_job(sources=...):
\* a job, a refusal because the list is over the per-job maximum, or a refusal
\* for another reason (a source it cannot accept).
StartReadSetImportJob(sources) ==
    IF Len(sources) > MAX_READ_SETS_PER_JOB
    THEN {"ValidationException"}
    ELSE {"started", "ClientError"}

\* `readset_import_job = omics.start_read_set_import_job(..., sources=import_sources)`
StartReadSetImport ==
    /\ readsetCell = "idle"
    /\ \E answer \in StartReadSetImportJob(import_sources) :
         /\ readsetCell' = answer
         /\ readsetJobs' = IF answer = "started"
                           THEN Append(readsetJobs, import_sources)
                           ELSE readsetJobs
    /\ UNCHANGED <<notSubmitVars, import_sources, vcf_list, loopIdx, loopPc, variantJobs,
                   started>>

\* `N_TOTAL_JOBS = len(vcf_list)` ... `for i, uri in enumerate(vcf_list):`
BeginVariantImport ==
    /\ loopPc = "idle"
    /\ loopPc' = IF Len(vcf_list) = 0 THEN "done" ELSE "loop"
    /\ loopIdx' = 0
    /\ UNCHANGED <<notSubmitVars, import_sources, readsetCell, readsetJobs, vcf_list,
                   variantJobs, started>>

\* The items of one start_variant_import_job call: `items=[{"source": uri}]`
VariantItems(uri) == <<uri>>

\* One iteration: `response = omics.start_variant_import_job(...)` and the print.
\* A refusal raises ClientError, which nothing in the loop catches.
StartVariantImport ==
    /\ loopPc = "loop"
    /\ LET uri == vcf_list[loopIdx + 1] IN
       \E accepted \in BOOLEAN :
         IF accepted
         THEN /\ variantJobs' = Append(variantJobs, VariantItems(uri))
              /\ started' = Append(started, [job |-> loopIdx + 1, uri |-> uri])
              /\ loopIdx' = loopIdx + 1
              /\ loopPc' = IF loopIdx + 1 = Len(vcf_list) THEN "done" ELSE "loop"
         ELSE /\ loopPc' = "raised"
              /\ UNCHANGED <<variantJobs, started, loopIdx>>
    /\ UNCHANGED <<notSubmitVars, import_sources, readsetCell, readsetJobs, vcf_list>>

SubmitInitVars ==
    /\ import_sources \in {Ids(n) : n \in SourceLens}
    /\ readsetCell = "idle"
    /\ readsetJobs = <<>>
    /\ vcf_list \in {Ids(n) : n \in 0..MaxSources}
    /\ loopIdx = 0
    /\ loopPc = "idle"
    /\ variantJobs = <<>>
    /\ started = <<>>

SubmitInit == StoreIdle /\ SubmitInitVars /\ WaitIdle /\ ReadIdle /\ ManifestIdle
              /\ VariantStoreIdle /\ ReadSetIdle /\ RunGroupIdle /\ RunCellIdle /\ AthenaIdle

SubmitNext == StartReadSetImport \/ BeginVariantImport \/ StartVariantImport

SpecSubmit == SubmitInit /\ [][SubmitNext]_vars

(***************************************************************************)
(* Claims about import job submission                                      *)
(***************************************************************************)
\* C1: for a source list of length L and the per-job maximum B, submission
\* yields exactly ceil(L/B) jobs, each with at most B sources, whose source
\* lists concatenated in submission order give the original list.  Stated of
\* the read set import cell once it has run and the service has refused no
\* source for a reason other than the size of the list.
C1_BatchedSubmission ==
    readsetCell \in {"started", "ValidationException"} =>
        /\ Len(readsetJobs) = Ceil(Len(import_sources), MAX_READ_SETS_PER_JOB)
        /\ \A j \in 1..Len(readsetJobs) :
              Len(readsetJobs[j]) <= MAX_READ_SETS_PER_JOB
        /\ Flatten(readsetJobs) = import_sources

\* C9: when the service refuses chunk i, the caller still ends with one result
\* per chunk (a job handle or a rejection carrying the chunk's index), and the
\* jobs submitted before are left alone.  Stated of the variant import loop
\* once it has ended, normally or by the error.
C9_PerChunkResults ==
    loopPc \in {"done", "raised"} =>
        /\ Len(started) = Len(vcf_list)
        /\ Len(variantJobs) = Len(started)

(***************************************************************************)
(* Waiting for a job: waiter = omics.get_waiter(...); waiter.wait(...)     *)
(***************************************************************************)
JobStatuses == {"SUBMITTED", "IN_PROGRESS", "COMPLETED", "FAILED", "CANCELLED"}

Terminal == {"COMPLETED", "FAILED", "CANCELLED"}

\* The statuses a job can move to from status st.
JobNext(st) ==
    CASE st = "SUBMITTED"   -> {"IN_PROGRESS"}
      [] st = "IN_PROGRESS" -> Terminal
      [] OTHER              -> {}

\* The remote job advances on its own.
RemoteAdvance ==
    /\ \E st \in JobNext(jobStatus) : jobStatus' = st
    /\ UNCHANGED <<notWaitVars, wpc, max_attempts, attempts, polled, waitResult, printed,
                   issued, statusAtReturn, cancelRequested, pollsAfterCancel>>

\* Mutant: the waiter has no acceptor for CANCELLED.
AcceptorWithoutCancelled(status) ==
    CASE status = "COMPLETED" -> "success"
      [] status = "FAILED"    -> "failure"
      [] OTHER                -> "retry"

\* The acceptors of the 'reference_import_job_completed' waiter: the state a
\* polled status puts the waiter in.
Acceptor(status) ==
    CASE status = "COMPLETED"              -> "success"
      [] status \in {"FAILED", "CANCELLED"} -> "failure"
      [] OTHER                             -> "retry"

\* Mutant: the wait has no attempt budget.
AttemptsNeverExhausted(n, max) == FALSE

\* Mutant: the attempt budget is tested one poll late.
AttemptsExhaustedLate(n, max) == n > max

\* `if num_attempts >= max_attempts: raise WaiterError('Max attempts exceeded')`
AttemptsExhausted(n, max) == n >= max

\* Mutant: a wait that gives up also cancels the job.
PollRequestsCancelOnTimeout(timedOut) ==
    IF timedOut THEN <<"Get", "Cancel">> ELSE <<"Get">>

\* Mutant: a wait that gives up submits the job again.
PollRequestsResubmitOnTimeout(timedOut) ==
    IF timedOut THEN <<"Get", "Start">> ELSE <<"Get">>

\* The operations one poll sends: the waiter's get call, whatever its outcome.
PollRequests(timedOut) == <<"Get">>

\* What the service does to a job's status on an operation.
RemoteApply(status, op) ==
    CASE op = "Cancel" /\ status \notin Terminal -> "CANCELLED"
      [] op = "Start"                              -> "SUBMITTED"
      [] OTHER                                     -> status

RECURSIVE RemoteApplyAll(_, _)
RemoteApplyAll(status, ops) ==
    IF ops = <<>> THEN status
    ELSE RemoteApplyAll(RemoteApply(status, Head(ops)), Tail(ops))

\* How waiter.wait goes on after its n-th poll observed `status`: it returns
\* (no value) on the success state, raises WaiterError carrying the last
\* response on a failure state or when the attempts are used up, and sleeps
\* otherwise (NoResult).
WaitOutcome(status, n, max) ==
    CASE Acceptor(status) = "success" ->
            [kind |-> "success", reason |-> None, last_response |-> None]
      [] Acceptor(status) = "failure" ->
            [kind |-> "WaiterError", reason |-> "terminal failure",
             last_response |-> status]
      [] OTHER ->
            IF AttemptsExhausted(n, max)
            THEN [kind |-> "WaiterError", reason |-> "Max attempts exceeded",
                  last_response |-> status]
            ELSE NoResult

\* One poll of the waiter's loop and what follows it up to the next sleep.
\* Mutant: the except branch prints the "FAILED:" line only.
CellOutputWithoutError(r) ==
    IF r.kind = "success" THEN <<"complete">> ELSE <<"FAILED:">>

\* What the cell prints after the wait: `print(f"job {id} complete")`, or in
\* the except branch `print(f"job {id} FAILED:")` and `print(e)`.
CellOutput(r) ==
    IF r.kind = "success" THEN <<"complete">> ELSE <<"FAILED:", r.reason>>

DoPoll ==
    LET status   == jobStatus
        n        == attempts + 1
        outcome  == WaitOutcome(status, n, max_attempts)
        timedOut == outcome.reason = "Max attempts exceeded"
        ops      == PollRequests(timedOut)
    IN  /\ attempts' = n
        /\ polled' = Append(polled, status)
        /\ waitResult' = outcome
        /\ printed' = IF outcome = NoResult THEN printed ELSE CellOutput(outcome)
        /\ wpc' = IF outcome = NoResult THEN "waiting" ELSE "done"
        /\ issued' = issued \cup {ops[i] : i \in 1..Len(ops)}
        /\ jobStatus' = RemoteApplyAll(jobStatus, ops)
        /\ statusAtReturn' = IF outcome = NoResult THEN None ELSE jobStatus'
        /\ pollsAfterCancel' = IF cancelRequested THEN pollsAfterCancel + 1
                               ELSE pollsAfterCancel

\* `waiter.wait(referenceStoreId=..., id=...)` is called: the first poll is made at once.
StartWait ==
    /\ wpc = "idle"
    /\ DoPoll
    /\ UNCHANGED <<notWaitVars, max_attempts, cancelRequested>>

\* The sleep is over: the next poll.
Poll ==
    /\ wpc = "waiting"
    /\ DoPoll
    /\ UNCHANGED <<notWaitVars, max_attempts, cancelRequested>>

\* Somebody signals cancellation while the wait sleeps between polls.  The
\* wait call takes no cancellation input and reads none.
Cancel ==
    /\ wpc = "waiting"
    /\ ~cancelRequested
    /\ cancelRequested' = TRUE
    /\ UNCHANGED <<notWaitVars, jobStatus, wpc, max_attempts, attempts, polled,
                   waitResult, printed, issued, statusAtReturn, pollsAfterCancel>>

WaitInitVars ==
    /\ jobStatus \in {"SUBMITTED", "IN_PROGRESS"}
    /\ wpc = "idle"
    /\ max_attempts \in 1..MaxAttempts
    /\ attempts = 0
    /\ polled = <<>>
    /\ waitResult = NoResult
    /\ printed = <<>>
    /\ issued = {}
    /\ statusAtReturn = None
    /\ cancelRequested = FALSE
    /\ pollsAfterCancel = 0

WaitInit == StoreIdle /\ SubmitIdle /\ WaitInitVars /\ ReadIdle /\ ManifestIdle
            /\ VariantStoreIdle /\ ReadSetIdle /\ RunGroupIdle /\ RunCellIdle /\ AthenaIdle

WaitNext == RemoteAdvance \/ StartWait \/ Poll \/ Cancel

SpecWait == WaitInit /\ [][WaitNext]_vars

\* waiter.wait is a loop in the cell's own thread: after each sleep of Delay
\* seconds the next poll is made.
SpecWaitFair == SpecWait /\ WF_vars(Poll)

(***************************************************************************)
(* Claims about waiting                                                    *)
(***************************************************************************)
\* The status a finished wait reports to its caller: a normal return of the
\* '..._completed' waiter means COMPLETED, a WaiterError names the status of
\* its last response.
ReportedStatus(r) == IF r.kind = "success" THEN "COMPLETED" ELSE r.last_response

TimedOut(r) == r.kind = "WaiterError" /\ r.reason = "Max attempts exceeded"

AllNonTerminal(seq) == \A i \in 1..Len(seq) : seq[i] \notin Terminal

C4_TimeoutAfterMaxAttempts ==
    /\ attempts <= max_attempts
    /\ Len(polled) = attempts
    /\ wpc = "waiting" => attempts < max_attempts
    /\ (Len(polled) = max_attempts /\ AllNonTerminal(polled)) =>
          /\ wpc = "done"
          /\ waitResult = [kind |-> "WaiterError", reason |-> "Max attempts exceeded",
                           last_response |-> Last(polled)]

\* C4 witness: three or more polls, all non-terminal, and the wait has given up.
C4_Witness ==
    /\ max_attempts >= 3
    /\ Len(polled) = max_attempts
    /\ AllNonTerminal(polled)
    /\ wpc = "done"
    /\ TimedOut(waitResult)

\* C6: once cancellation is signalled during a wait, the wait makes at most one
\* further poll and has then returned WaitCancelled.
C6_CancelEndsWait ==
    cancelRequested =>
        /\ pollsAfterCancel <= 1
        /\ pollsAfterCancel = 1 => (wpc = "done" /\ waitResult.kind = "WaitCancelled")

\* C10: a wait that gives up leaves the remote job as it is: the waiter sends
\* nothing but get calls, the job's status right after the wait is the
\* non-terminal one the last poll saw, and the job can still finish later.
C10_WaitLeavesJobAlone ==
    /\ issued \subseteq {"Get"}
    /\ (wpc = "done" /\ TimedOut(waitResult)) =>
          /\ statusAtReturn = Last(polled)
          /\ statusAtReturn \notin Terminal

\* C10 witness: the wait gave up on an unfinished job, which has since completed.
C10_Witness ==
    /\ wpc = "done"
    /\ TimedOut(waitResult)
    /\ statusAtReturn \notin Terminal
    /\ jobStatus = "COMPLETED"

\* The WaiterErrors a wait can end with when attempts run out, and when the
\* job was seen Failed or Cancelled.
TimeoutOutcomes ==
    {WaitOutcome(st, m, m) : st \in JobStatuses \ Terminal, m \in 1..MaxAttempts}

FailureOutcomes ==
    {WaitOutcome(st, 1, m) : st \in {"FAILED", "CANCELLED"}, m \in 1..MaxAttempts}

C16_StatusOnlyMovesForward ==
    [][/\ jobStatus' # jobStatus => jobStatus' \in JobNext(jobStatus)
       /\ jobStatus \in Terminal => jobStatus' = jobStatus
       /\ issued' \subseteq {"Get"}]_vars

\* C16 witness: the polls saw the job Submitted, InProgress and Failed, the
\* wait has ended and the job is still Failed.
C16_Witness ==
    /\ wpc = "done"
    /\ polled = <<"SUBMITTED", "IN_PROGRESS", "FAILED">>
    /\ jobStatus = "FAILED"
    /\ issued = {"Get"}

(***************************************************************************)
(* Downloading a reference: omics.get_reference(..., partNumber=1, file=..)*)
(***************************************************************************)
\* Byte lengths a part can have.
PartSizes == {3, 5, 7}

\* The bytes of part k of channel ch: every byte of the object is distinct.
Part(parts, ch, k) == [i \in 1..parts[ch][k] |-> <<ch, k, i>>]

\* The whole channel: its parts 1..N in order.
RECURSIVE PartsUpTo(_, _, _)
PartsUpTo(parts, ch, n) ==
    IF n = 0 THEN <<>> ELSE PartsUpTo(parts, ch, n - 1) \o Part(parts, ch, n)

Channel(parts, ch) == PartsUpTo(parts, ch, Len(parts[ch]))

\* The part the cell asks for: `partNumber=1`
RequestedPart(parts, ch) == Part(parts, ch, 1)

\* Mutant: the file is opened for appending.
OpenAppendAndWrite(old, data) == old \o data

\* `with open(name, 'wb') as f: f.write(data)`: the file is truncated, then written.
OpenAndWrite(old, data) == data

\* `f.write(response['payload'].read())`: read() raises before f.write is
\* called, so nothing of the part is written.
WrittenBeforeFailure(part) == <<>>

\* The exception a failed download raises: botocore's ClientError from the
\* get call, or the stream's error from payload.read().  Neither carries the
\* part number (part 0: no part named).
DownloadError(ch, result) ==
    [channel |-> ch,
     stage   |-> IF result = "get_failed" THEN "get_reference" ELSE "payload.read",
     part    |-> 0]

\* One download: `response = omics.get_reference(...)`, then
\* `with open(..., 'wb') as f: f.write(response['payload'].read())`.
\* The get call can fail (the file is not touched), and reading the payload
\* stream can fail (the file is already opened, hence empty).  There is no
\* retry: either failure ends the cell.
Download(ch, next) ==
    \E result \in {"ok", "get_failed", "read_failed"} :
        /\ files' = CASE result = "ok" ->
                           [files EXCEPT ![FileOf(ch)] =
                               OpenAndWrite(@, RequestedPart(refParts, ch))]
                      [] result = "read_failed" ->
                           [files EXCEPT ![FileOf(ch)] =
                               OpenAndWrite(@, WrittenBeforeFailure(
                                                   RequestedPart(refParts, ch)))]
                      [] OTHER -> files
        /\ written' = IF result = "ok"
                      THEN [written EXCEPT ![FileOf(ch)] =
                               Len(RequestedPart(refParts, ch))]
                      ELSE written
        /\ dlPc' = IF result = "ok" THEN next ELSE "idle"
        /\ dlRuns' = IF result # "ok" THEN Append(dlRuns, "raised")
                     ELSE IF next = "idle" THEN Append(dlRuns, "done")
                     ELSE dlRuns
        /\ dlError' = IF result # "ok" THEN DownloadError(ch, result) ELSE dlError

\* "# download a part of the reference"
DownloadSourcePart ==
    /\ dlPc = "idle"
    /\ Len(dlRuns) < MaxDownloadRuns
    /\ Download("SOURCE", "index")
    /\ UNCHANGED <<notReadVars, refParts>>

\* "# download a part of the reference index"
DownloadIndexPart ==
    /\ dlPc = "index"
    /\ Download("INDEX", "idle")
    /\ UNCHANGED <<notReadVars, refParts>>

PartLists == UNION { [1..n -> PartSizes] : n \in 1..MaxParts }

ReadInitVars ==
    /\ refParts \in [Channels -> PartLists]
    /\ files = [f \in FileNames |-> <<>>]
    /\ written = [f \in FileNames |-> 0]
    /\ dlPc = "idle"
    /\ dlRuns = <<>>
    /\ dlError = NoError

ReadInit == StoreIdle /\ SubmitIdle /\ WaitIdle /\ ReadInitVars /\ ManifestIdle
            /\ VariantStoreIdle /\ ReadSetIdle /\ RunGroupIdle /\ RunCellIdle /\ AthenaIdle

ReadNext == DownloadSourcePart \/ DownloadIndexPart

SpecRead == ReadInit /\ [][ReadNext]_vars

(***************************************************************************)
(* Building the import manifest: the cram_sources cell, the fastq_sources  *)
(* cell and `import_sources = fastq_sources + cram_sources`.               *)
(*                                                                         *)
(* A URI is kept as what urlparse and split('/') make of it: the bucket    *)
(* (netloc), the directory segments and the object name.  The FASTQ URIs   *)
(* come from one template, so they share bucket and directory and differ   *)
(* in `R{read}_{part:03}` only.                                            *)
(***************************************************************************)
Min(a, b) == IF a <= b THEN a ELSE b

\* `seq[i]` with Python's 0-based index; "IndexError" when out of range.
Index(seq, i) == IF i < Len(seq) THEN seq[i + 1] ELSE "IndexError"

\* `seq[-i]`; "IndexError" when out of range.
IndexFromEnd(seq, i) == IF i <= Len(seq) THEN seq[Len(seq) - i + 1] ELSE "IndexError"

\* The characters `R{read}_{part:03}` puts into the object name: the read digit
\* and the part number padded to three digits.
FastqName(u) ==
    <<u.read, (u.part \div 100) % 10, (u.part \div 10) % 10, u.part % 10>>

\* String comparison, character by character.
RECURSIVE LexLess(_, _)
LexLess(a, b) ==
    IF a = <<>> THEN b # <<>>
    ELSE IF b = <<>> THEN FALSE
    ELSE IF Head(a) # Head(b) THEN Head(a) < Head(b)
    ELSE LexLess(Tail(a), Tail(b))

\* `sorted(SOURCE_S3_URIS['reads']['fastq'])`
RECURSIVE Sorted(_)
Sorted(S) ==
    IF S = {} THEN <<>>
    ELSE LET m == CHOOSE x \in S :
                      \A y \in S \ {x} : LexLess(FastqName(x), FastqName(y))
         IN  <<m>> \o Sorted(S \ {m})

\* `zip(a, b)`: stops at the shorter list.
Zip(a, b) == [i \in 1..Min(Len(a), Len(b)) |-> <<a[i], b[i]>>]

\* Mutant: the sorted list is paired off two by two, neighbour with neighbour.
SourceUrisNeighbours(L) ==
    [i \in 1..(Cardinality(L) \div 2) |-> <<Sorted(L)[2 * i - 1], Sorted(L)[2 * i]>>]

\* `source_uris = zip(sorted(L)[:len(L)//2], sorted(L)[len(L)//2:])`
SourceUris(L) ==
    LET n == Cardinality(L)
    IN  Zip(SubSeq(Sorted(L), 1, n \div 2), SubSeq(Sorted(L), n \div 2 + 1, n))

\* `source.path[1:].split('/')` of a FASTQ URI: the segments and the object name.
FastqPath(dir, u) == Append(dir, FastqName(u))

\* `source.path[1:].split('/')` of a CRAM URI.
CramPath(uri) == Append(uri.dir, uri.name)

\* One entry of cram_sources.
CramSource(uri) ==
    [subjectId      |-> IndexFromEnd(CramPath(uri), 2),
     sampleId       |-> Index(IndexFromEnd(CramPath(uri), 1), 0),
     sourceFileType |-> "CRAM",
     sourceFiles    |-> [source1 |-> uri]]

\* Mutant: the entry names the first file of the pair only.
FastqSourceFirstOnly(dir, reads) ==
    [subjectId      |-> Index(FastqPath(dir, reads[1]), 1),
     sampleId       |-> Index(FastqPath(dir, reads[1]), 5),
     sourceFileType |-> "FASTQ",
     sourceFiles    |-> [source1 |-> reads[1]]]

\* One entry of fastq_sources.
FastqSource(dir, reads) ==
    [subjectId      |-> Index(FastqPath(dir, reads[1]), 1),
     sampleId       |-> Index(FastqPath(dir, reads[1]), 5),
     sourceFileType |-> "FASTQ",
     sourceFiles    |-> [source1 |-> reads[1], source2 |-> reads[2]]]

\* The entries whose subject or sample lookup raised.
Raising(sources) ==
    {i \in 1..Len(sources) :
        "IndexError" \in {sources[i].subjectId, sources[i].sampleId}}

\* A `for` loop appending one entry per input: the entries before the first
\* one that raises are in the list when the exception leaves the cell.
BuiltBeforeError(sources) ==
    IF Raising(sources) = {} THEN sources
    ELSE SubSeq(sources, 1,
                (CHOOSE i \in Raising(sources) : \A j \in Raising(sources) : i <= j) - 1)

\* "# create a list of cram sources"
BuildCramSources ==
    /\ mpc = "cram"
    /\ LET all == [i \in 1..Len(cram_uris) |-> CramSource(cram_uris[i])]
       IN  /\ cram_sources' = BuiltBeforeError(all)
           /\ mError' = IF Raising(all) = {} THEN None ELSE "IndexError"
           /\ mpc' = IF Raising(all) = {} THEN "fastq" ELSE "cram raised"
    /\ UNCHANGED <<notManifestVars, cram_uris, fastq_dir, fastq_uris, fastq_sources,
                   manifest, job_sources>>

\* The fastq_sources cell: sort, divide in two, zip, one entry per pair.
BuildFastqSources ==
    /\ mpc = "fastq"
    /\ LET pairs == SourceUris(fastq_uris)
           all == [i \in 1..Len(pairs) |-> FastqSource(fastq_dir, pairs[i])]
       IN  /\ fastq_sources' = BuiltBeforeError(all)
           /\ mError' = IF Raising(all) = {} THEN None ELSE "IndexError"
           /\ mpc' = IF Raising(all) = {} THEN "combine" ELSE "fastq raised"
    /\ UNCHANGED <<notManifestVars, cram_uris, fastq_dir, fastq_uris, cram_sources,
                   manifest, job_sources>>

\* `import_sources = fastq_sources + cram_sources`
CombineSources ==
    /\ mpc = "combine"
    /\ manifest' = fastq_sources \o cram_sources
    /\ mpc' = "done"
    /\ UNCHANGED <<notManifestVars, cram_uris, fastq_dir, fastq_uris, cram_sources,
                   fastq_sources, job_sources, mError>>

\* `omics.start_read_set_import_job(..., sources=import_sources)` on the
\* manifest just built: the list is handed over as it is.
StartManifestImport ==
    /\ mpc = "done"
    /\ \E answer \in StartReadSetImportJob(manifest) :
          /\ job_sources' = IF answer = "started" THEN manifest ELSE job_sources
          /\ mpc' = answer
    /\ UNCHANGED <<notManifestVars, cram_uris, fastq_dir, fastq_uris, cram_sources,
                   fastq_sources, manifest, mError>>

\* The directory of the FASTQ template, and a shallower one.
FastqDirs ==
    { <<"data", "NA12878", "NIST_NA12878_HG001_HiSeq_300x",
        "140407_D00360_0016_AH948VADXX", "Project_RM8398", "Sample_U0a">>,
      <<"data", "NA12878">> }

\* CRAM URIs: two of the notebook's, and one whose object sits at the bucket root.
CramUris ==
    { [netloc |-> "1000genomes", dir |-> <<"data", "ERR3988761">>,
       name |-> <<"HG00405", "final", "cram">>],
      [netloc |-> "1000genomes", dir |-> <<"data", "ERR3988762">>,
       name |-> <<"HG00408", "final", "cram">>],
      [netloc |-> "1000genomes", dir |-> <<>>,
       name |-> <<"HG00418", "final", "cram">>] }

FastqUris == [read : {1, 2}, part : 1..MaxFastqParts]

ManifestInitVars ==
    /\ cram_uris \in UNION { [1..n -> CramUris] : n \in 0..MaxCrams }
    /\ fastq_dir \in FastqDirs
    /\ fastq_uris \in SUBSET FastqUris
    /\ cram_sources = <<>>
    /\ fastq_sources = <<>>
    /\ manifest = <<>>
    /\ job_sources = <<>>
    /\ mpc = "cram"
    /\ mError = None

ManifestInit == StoreIdle /\ SubmitIdle /\ WaitIdle /\ ReadIdle /\ ManifestInitVars
                /\ VariantStoreIdle /\ ReadSetIdle /\ RunGroupIdle /\ RunCellIdle /\ AthenaIdle

ManifestNext ==
    BuildCramSources \/ BuildFastqSources \/ CombineSources \/ StartManifestImport

SpecManifest == ManifestInit /\ [][ManifestNext]_vars

(***************************************************************************)
(* Claims about the manifest cells                                         *)
(***************************************************************************)
\* The FASTQ cell has been run.
FastqCellRan == mpc \notin {"cram", "cram raised", "fastq"}

\* The CRAM cell has been run.
CramCellRan == mpc # "cram"

\* C14: whenever the number of FASTQ inputs is odd, building the paired
\* sources fails with ManifestPairMismatch and yields no list.
C14_OddInputRejected ==
    (FastqCellRan /\ Cardinality(fastq_uris) % 2 = 1) =>
        /\ mError = "ManifestPairMismatch"
        /\ fastq_sources = <<>>

\* C21: whenever a source path has fewer segments than the fixed index that
\* derives its subject or sample identifier needs (two for a CRAM path, six
\* for a FASTQ path), the build fails (IndexError standing for
\* ManifestFieldMissing), and no entry is produced whose identifier is missing.
C21_ShortPathRejected ==
    /\ (CramCellRan /\ \E i \in 1..Len(cram_uris) : Len(CramPath(cram_uris[i])) < 2) =>
            (mpc = "cram raised" /\ mError = "IndexError")
    /\ (FastqCellRan /\ \E u \in fastq_uris : Len(FastqPath(fastq_dir, u)) < 6) =>
            (mpc = "fastq raised" /\ mError = "IndexError")
    /\ Raising(cram_sources \o fastq_sources) = {}

\* The locators of an entry, by kind.
LocatorNames(d) ==
    IF d.sourceFileType = "FASTQ" THEN {"source1", "source2"} ELSE {"source1"}

\* C22: every entry the manifest cells produce has exactly the two locators
\* source1 and source2, the first and the second file of its pair, when it is
\* a FASTQ entry, and exactly the one locator source1 otherwise; and the
\* import job receives the entries exactly as built.
C22_LocatorsByKind ==
    /\ \A i \in 1..Len(cram_sources) :
          /\ cram_sources[i].sourceFileType = "CRAM"
          /\ DOMAIN cram_sources[i].sourceFiles = {"source1"}
          /\ cram_sources[i].sourceFiles.source1 = cram_uris[i]
    /\ \A i \in 1..Len(fastq_sources) :
          /\ fastq_sources[i].sourceFileType = "FASTQ"
          /\ DOMAIN fastq_sources[i].sourceFiles = {"source1", "source2"}
          /\ fastq_sources[i].sourceFiles.source1 = SourceUris(fastq_uris)[i][1]
          /\ fastq_sources[i].sourceFiles.source2 = SourceUris(fastq_uris)[i][2]
    /\ \A i \in 1..Len(manifest) :
          DOMAIN manifest[i].sourceFiles = LocatorNames(manifest[i])
    /\ mpc \in {"done", "started", "ClientError", "ValidationException"} =>
          manifest = fastq_sources \o cram_sources
    /\ mpc = "started" => job_sources = manifest

\* C22 witness: a manifest with a FASTQ entry and a CRAM entry has been
\* submitted and the job exists.
C22_Witness ==
    /\ mpc = "started"
    /\ Len(fastq_sources) >= 1
    /\ Len(cram_sources) >= 1
    /\ Len(job_sources) = Len(fastq_sources) + Len(cram_sources)

\* "evenly matched with two reads {R1, R2}": every part is there with both
\* of its reads.
EvenlyMatched(L) ==
    /\ L # {}
    /\ \A u \in L : [read |-> 3 - u.read, part |-> u.part] \in L

\* C29: for FASTQ locations with one read-1 and one read-2 file per part,
\* sorting the list and splitting it in half gives pairs whose first file is
\* read 1 and whose second is read 2 of the same part, with every location
\* in exactly one pair; and these pairs, in this order, are the source1 and
\* source2 of the entries built.
C29_SortSplitPairsReads ==
    (FastqCellRan /\ EvenlyMatched(fastq_uris)) =>
        LET pairs == SourceUris(fastq_uris)
        IN  /\ \A i \in 1..Len(pairs) :
                   /\ pairs[i][1].read = 1
                   /\ pairs[i][2].read = 2
                   /\ pairs[i][1].part = pairs[i][2].part
            /\ \A u \in fastq_uris :
                   Cardinality({<<i, k>> \in (1..Len(pairs)) \X {1, 2} :
                                   pairs[i][k] = u}) = 1
            /\ mpc # "fastq raised" =>
                   /\ Len(fastq_sources) = Len(pairs)
                   /\ \A i \in 1..Len(pairs) :
                          /\ fastq_sources[i].sourceFiles.source1 = pairs[i][1]
                          /\ fastq_sources[i].sourceFiles.source2 = pairs[i][2]

\* C29 witness: both reads of every part went in, and the cell built one
\* entry per part, the first for part 1 and the last for the last part.
C29_Witness ==
    /\ mpc = "combine"
    /\ fastq_uris = FastqUris
    /\ Len(fastq_sources) = MaxFastqParts
    /\ fastq_sources[1].sourceFiles.source2 = [read |-> 2, part |-> 1]
    /\ fastq_sources[MaxFastqParts].sourceFiles.source1 =
           [read |-> 1, part |-> MaxFastqParts]

(***************************************************************************)
(* Creating the variant store: create_variant_store, the                   *)
(* 'variant_store_created' waiter cell and get_variant_store.  The cells   *)
(* that create the annotation store are the same with "annotation" for     *)
(* "variant", and so is the workflow notebook's create_workflow: create,   *)
(* 'workflow_active' waiter in try/except, get_workflow, return.           *)
(***************************************************************************)
StoreKinds == {"variant", "annotation", "workflow"}

\* "Creating a variant store takes up to 5 min to complete": the store is
\* being created for a while and then is ready for use, or has failed.
StoreStatusNext(st) == IF st = "CREATING" THEN {"ACTIVE", "FAILED"} ELSE {}

\* The acceptors of the 'variant_store_created' waiter.
StoreAcceptor(status) ==
    CASE status = "ACTIVE" -> "success"
      [] status = "FAILED" -> "failure"
      [] OTHER             -> "retry"

\* How waiter.wait goes on after its n-th poll observed `status`.
StoreWaitOutcome(status, n, max) ==
    CASE StoreAcceptor(status) = "success" ->
            [kind |-> "success", reason |-> None, last_response |-> None]
      [] StoreAcceptor(status) = "failure" ->
            [kind |-> "WaiterError", reason |-> "terminal failure", last_response |-> status]
      [] OTHER ->
            IF AttemptsExhausted(n, max)
            THEN [kind |-> "WaiterError", reason |-> "Max attempts exceeded",
                  last_response |-> status]
            ELSE NoResult

\* `response = omics.create_variant_store(...)` and `var_store = response`;
\* when the service refuses the call the cell ends with its error.
CreateVariantStore ==
    /\ vsPc = "create"
    /\ \E accepted \in BOOLEAN :
          /\ vsStatus' = IF accepted THEN "CREATING" ELSE vsStatus
          /\ var_store' = IF accepted THEN "CREATING" ELSE var_store
          /\ vsPc' = IF accepted THEN "wait" ELSE "raised"
    /\ UNCHANGED <<notVariantStoreVars, vsKind, vsMax, vsAttempts, vsPolled, vsPrinted>>

\* The store becomes ready, or fails, on its own.
VariantStoreAdvance ==
    /\ \E st \in StoreStatusNext(vsStatus) : vsStatus' = st
    /\ UNCHANGED <<notVariantStoreVars, vsKind, vsPc, vsMax, vsAttempts, vsPolled,
                   vsPrinted, var_store>>

\* One poll of `waiter.wait(name=var_store['name'])`.  When the wait ends the
\* try block prints "ready for use", or the except branch prints "FAILED:"
\* and the error; either way the cell goes on to get_variant_store.
PollVariantStore ==
    /\ vsPc = "wait"
    /\ LET outcome == StoreWaitOutcome(vsStatus, vsAttempts + 1, vsMax)
       IN  /\ vsAttempts' = vsAttempts + 1
           /\ vsPolled' = Append(vsPolled, vsStatus)
           /\ vsPrinted' = IF outcome = NoResult THEN vsPrinted
                           ELSE IF outcome.kind = "success"
                                THEN <<vsKind, "ready for use">>
                                ELSE <<vsKind, "FAILED:", outcome.reason>>
           /\ vsPc' = IF outcome = NoResult THEN "wait" ELSE "get"
    /\ UNCHANGED <<notVariantStoreVars, vsKind, vsStatus, vsMax, var_store>>

\* `var_store = omics.get_variant_store(name=var_store['name'])`, after the
\* try/except.
GetVariantStore ==
    /\ vsPc = "get"
    /\ var_store' = vsStatus
    /\ vsPc' = "done"
    /\ UNCHANGED <<notVariantStoreVars, vsKind, vsStatus, vsMax, vsAttempts, vsPolled,
                   vsPrinted>>

VariantStoreInitVars ==
    /\ vsKind \in StoreKinds
    /\ vsStatus = "NONE"
    /\ vsPc = "create"
    /\ vsMax \in 1..MaxAttempts
    /\ vsAttempts = 0
    /\ vsPolled = <<>>
    /\ vsPrinted = <<>>
    /\ var_store = None

VariantStoreInit ==
    /\ StoreIdle /\ SubmitIdle /\ WaitIdle /\ ReadIdle /\ ManifestIdle
    /\ VariantStoreInitVars /\ ReadSetIdle /\ RunGroupIdle /\ RunCellIdle /\ AthenaIdle

VariantStoreNext ==
    CreateVariantStore \/ VariantStoreAdvance \/ PollVariantStore \/ GetVariantStore

SpecVariantStore == VariantStoreInit /\ [][VariantStoreNext]_vars

(***************************************************************************)
(* Claims about the variant store cells                                    *)
(***************************************************************************)
\* C19: when no store exists, the cells create one and hand it on (var_store)
\* only after a poll has seen it ready for use, never while it is still
\* being created.
C19_ReturnedOnlyWhenUsable ==
    vsPc = "done" =>
        /\ \E i \in 1..Len(vsPolled) : vsPolled[i] = "ACTIVE"
        /\ var_store # "CREATING"

\* The wait ended in the except branch: a failure or a timeout.
WaitFailed == Len(vsPrinted) >= 2 /\ vsPrinted[2] = "FAILED:"

\* C23: no wait failure is swallowed: when the wait on the resource ended in
\* failure or timeout, the step does not end normally with the resource
\* handed on.
C23_NoWaitFailureSwallowed == WaitFailed => vsPc # "done"

\* The wait ended on a terminal status of the job.
ReturnedTerminal == ReportedStatus(waitResult) \in Terminal

StartReadSetJob ==
    /\ rsPc = "start"
    /\ \E n \in 1..MaxSources :
          \E answer \in StartReadSetImportJob(Ids(n)) :
             /\ rsJob' = IF answer = "started" THEN "SUBMITTED" ELSE rsJob
             /\ rsPending' = IF answer = "started" THEN n ELSE rsPending
             /\ rsPc' = IF answer = "started" THEN "get" ELSE "raised"
    /\ UNCHANGED <<notReadSetVars, rsReadSets, rsObserved, rsInProgress, readset, rsReadAt>>

\* The service works through the job: it starts it, imports one source after
\* the other, each giving a read set in the store, and ends it Completed when
\* none is left; or the job ends Failed or Cancelled with sources left over.
ReadSetJobAdvance ==
    /\ \/ /\ rsJob = "SUBMITTED"
          /\ rsJob' = "IN_PROGRESS"
          /\ UNCHANGED <<rsPending, rsReadSets>>
       \/ /\ rsJob = "IN_PROGRESS"
          /\ rsPending > 0
          /\ rsPending' = rsPending - 1
          /\ rsReadSets' = rsReadSets + 1
          /\ UNCHANGED rsJob
       \/ /\ rsJob = "IN_PROGRESS"
          /\ rsJob' \in IF rsPending = 0 THEN {"COMPLETED"} ELSE {"FAILED", "CANCELLED"}
          /\ UNCHANGED <<rsPending, rsReadSets>>
    /\ UNCHANGED <<notReadSetVars, rsObserved, rsInProgress, readset, rsReadAt, rsPc>>

\* "You can monitor this progress with omics.get_read_set_import_job": the
\* job is fetched once and shown.
GetReadSetImportJob ==
    /\ rsPc = "get"
    /\ rsObserved' = Append(rsObserved, rsJob)
    /\ rsPc' = "check"
    /\ UNCHANGED <<notReadSetVars, rsJob, rsPending, rsReadSets, rsInProgress, readset,
                   rsReadAt>>

\* "# check if there are readsets available": with no read set listed the
\* cell prints and `readset` stays unset (the cell can be run again later);
\* otherwise `readset = readset_list['readSets'][0]`.
CheckReadSets ==
    /\ rsPc = "check"
    /\ rsInProgress' = (rsJob = "IN_PROGRESS")
    /\ readset' = IF rsReadSets = 0 THEN readset ELSE "readSets[0]"
    /\ rsPc' \in IF rsReadSets = 0 THEN {"check", "metadata"} ELSE {"metadata"}
    /\ UNCHANGED <<notReadSetVars, rsJob, rsPending, rsReadSets, rsObserved, rsReadAt>>

\* `readset_metadata = omics.get_read_set_metadata(..., id=readset['id'])`:
\* the read of the read set begins; NameError when `readset` was never set.
GetReadSetMetadata ==
    /\ rsPc = "metadata"
    /\ rsReadAt' = IF readset = None THEN rsReadAt ELSE rsJob
    /\ rsPc' = IF readset = None THEN "raised" ELSE "download"
    /\ UNCHANGED <<notReadSetVars, rsJob, rsPending, rsReadSets, rsObserved, rsInProgress,
                   readset>>

\* "# download a part of the readset"
DownloadReadSetPart ==
    /\ rsPc = "download"
    /\ rsPc' \in {"done", "raised"}
    /\ UNCHANGED <<notReadSetVars, rsJob, rsPending, rsReadSets, rsObserved, rsInProgress,
                   readset, rsReadAt>>

ReadSetInit ==
    /\ StoreIdle /\ SubmitIdle /\ WaitIdle /\ ReadIdle /\ ManifestIdle
    /\ VariantStoreIdle /\ ReadSetIdle /\ RunGroupIdle /\ RunCellIdle /\ AthenaIdle

ReadSetNext ==
    \/ StartReadSetJob \/ ReadSetJobAdvance \/ GetReadSetImportJob
    \/ CheckReadSets \/ GetReadSetMetadata \/ DownloadReadSetPart

SpecReadSet == ReadSetInit /\ [][ReadSetNext]_vars

(***************************************************************************)
(* Claims about the read set cells                                         *)
(***************************************************************************)
\* C24: the read of a read set begins only after the import job that
\* produces it has been observed Completed: never while the job is unfinished
\* and never after it ended Failed or Cancelled.
C24_ReadOnlyAfterCompleted ==
    rsReadAt # None =>
        /\ rsReadAt = "COMPLETED"
        /\ \E i \in 1..Len(rsObserved) : rsObserved[i] = "COMPLETED"

(***************************************************************************)
(* The run group cells: three runs started in a loop, then the list_runs   *)
(* cell, run as often as the reader likes.                                 *)
(***************************************************************************)
\* A run's status moves PENDING -> STARTING -> RUNNING -> STOPPING ->
\* COMPLETED, or ends FAILED.
RunNext(st) ==
    CASE st = "PENDING"  -> {"STARTING", "FAILED"}
      [] st = "STARTING" -> {"RUNNING", "FAILED"}
      [] st = "RUNNING"  -> {"STOPPING", "FAILED"}
      [] st = "STOPPING" -> {"COMPLETED"}
      [] OTHER           -> {}

\* The ids of the runs the service holds for the run group.
Started(status) == {r \in RunIds : status[r] # None}

\* The orders in which the service may list the runs.
ListOrders(status) ==
    {o \in [1..Cardinality(Started(status)) -> Started(status)] :
        \A i, j \in DOMAIN o : i # j => o[i] # o[j]}

\* The status is read off the position in the list, not off the item.
ListingByPosition(items, status) ==
    [i \in 1..Len(items) |-> <<items[i], status[i]>>]

\* `[(_['id'], _['status']) for _ in omics.list_runs(...)['items']]`: each
\* item gives its own id and its own status.
Listing(items, status) ==
    [i \in 1..Len(items) |-> <<items[i], status[items[i]]>>]

\* One turn of `for run_num, run_input in enumerate(run_inputs)`: start_run
\* gives a new run, PENDING, whose handle is appended to rg_runs; when the
\* service refuses, the call raises and the loop ends there.
StartRun ==
    /\ rgPc = "loop"
    /\ \/ \E r \in RunIds \ Started(runStatus) :
             /\ runStatus' = [runStatus EXCEPT ![r] = "PENDING"]
             /\ rg_runs' = Append(rg_runs, r)
             /\ rgPc' = IF Len(rg_runs') = Len(run_inputs) THEN "done" ELSE "loop"
       \/ /\ rgPc' = "raised"
          /\ UNCHANGED <<runStatus, rg_runs>>
    /\ UNCHANGED <<notRunGroupVars, listing, listedAt, listings>>

\* The service moves one run on, whichever it likes.
RunAdvance ==
    /\ \E r \in Started(runStatus) :
          \E st \in RunNext(runStatus[r]) :
             runStatus' = [runStatus EXCEPT ![r] = st]
    /\ UNCHANGED <<notRunGroupVars, rg_runs, rgPc, listing, listedAt, listings>>

\* The list_runs cell, run after the loop cell has ended.
ListRuns ==
    /\ rgPc \in {"done", "raised"}
    /\ listings < MaxListings
    /\ \E items \in ListOrders(runStatus) :
          listing' = Listing(items, runStatus)
    /\ listedAt' = runStatus
    /\ listings' = listings + 1
    /\ UNCHANGED <<notRunGroupVars, runStatus, rg_runs, rgPc>>

RunGroupInit ==
    /\ StoreIdle /\ SubmitIdle /\ WaitIdle /\ ReadIdle /\ ManifestIdle
    /\ VariantStoreIdle /\ ReadSetIdle /\ RunGroupIdle /\ RunCellIdle /\ AthenaIdle

RunGroupNext == StartRun \/ RunAdvance \/ ListRuns

SpecRunGroup == RunGroupInit /\ [][RunGroupNext]_vars

(***************************************************************************)
(* Claims about the run group cells                                        *)
(***************************************************************************)
\* The ids shown by the latest list_runs cell.
ListedIds == {listing[i][1] : i \in 1..Len(listing)}

RunRunningConfig == [Delay |-> 30, MaxAttempts |-> 60]

\* `WaiterConfig={'Delay': 60, 'MaxAttempts': 60}`
RunCompletedConfig == [Delay |-> 60, MaxAttempts |-> 60]

\* The acceptors of the 'run_running' waiter: RUNNING is its success state,
\* PENDING and STARTING make it poll again, FAILED and CANCELLED are failure
\* states; no acceptor matches STOPPING or COMPLETED, and the wait sleeps and
\* polls again.
RunRunningAcceptor(status) ==
    CASE status = "RUNNING"                -> "success"
      [] status \in {"FAILED", "CANCELLED"} -> "failure"
      [] OTHER                             -> "retry"

\* The acceptors of the 'run_completed' waiter.
RunCompletedAcceptor(status) ==
    CASE status = "COMPLETED" -> "success"
      [] status = "FAILED"    -> "failure"
      [] OTHER                -> "retry"

\* How a poll that observed a status in state `accepted` ends, as the n-th
\* poll of a wait with `max` attempts.
RunWaitStep(accepted, n, max) ==
    CASE accepted = "success" -> "return"
      [] accepted = "failure" -> "terminal failure"
      [] OTHER -> IF AttemptsExhausted(n, max) THEN "Max attempts exceeded" ELSE "sleep"

\* `run = omics.start_run(...)` and the print after it; when the service
\* refuses, the call raises and the cell ends there.
StartRunCell ==
    /\ rcPc = "start"
    /\ \/ /\ runState' = "PENDING"
          /\ rcPrinted' = <<"starting run">>
          /\ rcPc' = "run_running"
       \/ /\ rcPc' = "raised"
          /\ UNCHANGED <<runState, rcPrinted>>
    /\ UNCHANGED <<notRunCellVars, rcAttempts, rcSeen>>

\* The service moves the run on.
RunCellAdvance ==
    /\ runState # None
    /\ \E st \in RunNext(runState) : runState' = st
    /\ UNCHANGED <<notRunCellVars, rcPc, rcAttempts, rcSeen, rcPrinted>>

\* One poll of `waiter.wait(id=run['id'], ...)` of the 'run_running' waiter:
\* on success the cell prints "is running" and goes on to the second wait;
\* a WaiterError takes it to `except ...: print(e)`.
PollRunning ==
    /\ rcPc = "run_running"
    /\ LET n    == rcAttempts + 1
           step == RunWaitStep(RunRunningAcceptor(runState), n,
                               RunRunningConfig.MaxAttempts)
       IN  /\ rcSeen' = rcSeen \cup {runState}
           /\ rcAttempts' = IF step = "sleep" THEN n ELSE 0
           /\ rcPc' = CASE step = "sleep"  -> "run_running"
                        [] step = "return" -> "run_completed"
                        [] OTHER           -> "done"
           /\ rcPrinted' = CASE step = "sleep"  -> rcPrinted
                             [] step = "return" -> Append(rcPrinted, "is running")
                             [] OTHER           -> Append(rcPrinted, step)
    /\ UNCHANGED <<notRunCellVars, runState>>

\* One poll of the 'run_completed' waiter: on success the cell prints
\* "completed"; a WaiterError takes it to `except ...: print(e)`.
PollCompleted ==
    /\ rcPc = "run_completed"
    /\ LET n    == rcAttempts + 1
           step == RunWaitStep(RunCompletedAcceptor(runState), n,
                               RunCompletedConfig.MaxAttempts)
       IN  /\ rcSeen' = rcSeen \cup {runState}
           /\ rcAttempts' = IF step = "sleep" THEN n ELSE 0
           /\ rcPc' = IF step = "sleep" THEN "run_completed" ELSE "done"
           /\ rcPrinted' = CASE step = "sleep"  -> rcPrinted
                             [] step = "return" -> Append(rcPrinted, "completed")
                             [] OTHER           -> Append(rcPrinted, step)
    /\ UNCHANGED <<notRunCellVars, runState>>

RunCellInit ==
    /\ StoreIdle /\ SubmitIdle /\ WaitIdle /\ ReadIdle /\ ManifestIdle
    /\ VariantStoreIdle /\ ReadSetIdle /\ RunGroupIdle /\ RunCellIdle /\ AthenaIdle

RunCellNext == StartRunCell \/ RunCellAdvance \/ PollRunning \/ PollCompleted

SpecRunCell == RunCellInit /\ [][RunCellNext]_vars

(***************************************************************************)
(* Claims about the run cell                                               *)
(***************************************************************************)
\* C28: 'run completed' is reported for every run that reaches COMPLETED
\* within the two attempt budgets: when the cell has ended and one of its
\* polls has seen the run COMPLETED, the last line printed is the
\* "completed" line, also when the run passed through RUNNING between two
\* polls of the first wait.
C28_CompletedReported ==
    (rcPc = "done" /\ "COMPLETED" \in rcSeen) => Last(rcPrinted) = "completed"

(***************************************************************************)
(* The Athena workgroup cell (for ... else) and the query cell that uses   *)
(* athena_workgroup['Name'].                                               *)
(***************************************************************************)
V3 == "Athena engine version 3"

EngineVersions == {"Athena engine version 2", V3}

WorkgroupNames == {"primary", "team", "omics"}

\* An item of list_work_groups(), with its 'Name' and 'EngineVersion'.
Summary(wg) == [type |-> "WorkGroupSummary", Name |-> wg.Name, Engine |-> wg.Engine]

\* The response of create_work_group, which has neither key.
CreateWorkGroupOutput == [type |-> "CreateWorkGroupOutput", Name |-> None, Engine |-> None]

\* `athena_workgroup['Name']`: TypeError on None, KeyError on a response
\* without that key.
WorkgroupName(w) ==
    CASE w.type = "WorkGroupSummary" -> w.Name
      [] w.type = "NoneType"         -> "TypeError"
      [] OTHER                       -> "KeyError"

\* The positions of the listed workgroups whose effective engine is version 3.
V3At(list) == {i \in 1..Len(list) : list[i].Engine = V3}

\* The `for wg in athena_workgroups: ... break` loop: the first workgroup
\* with engine version 3, or None when the loop runs to its `else`.
FirstV3(list) ==
    IF V3At(list) = {} THEN NoWorkgroup
    ELSE Summary(list[CHOOSE i \in V3At(list) : \A j \in V3At(list) : i <= j])

\* The list with a new workgroup in it, at whatever place the service lists it.
Inserted(list, wg) ==
    {SubSeq(list, 1, k) \o <<wg>> \o SubSeq(list, k + 1, Len(list)) : k \in 0..Len(list)}

\* `athena.create_work_group(Name='omics', Configuration={... version 3})`:
\* the service refuses a name that is taken (or the request, for reasons of
\* its own); otherwise the workgroup exists from now on.
CreateWorkGroup(list, name) ==
    IF \E i \in 1..Len(list) : list[i].Name = name
    THEN {[raised |-> TRUE, list |-> list]}
    ELSE {[raised |-> TRUE, list |-> list]}
         \cup {[raised |-> FALSE, list |-> l] :
                  l \in Inserted(list, [Name |-> name, Engine |-> V3])}

\* The workgroup cell, start to end.
SelectWorkgroup ==
    /\ awPc \in {"select", "selected", "raised"}
    /\ awRuns < MaxSelectRuns
    /\ awRuns' = awRuns + 1
    /\ awListed' = workgroups
    /\ IF V3At(workgroups) # {}
       THEN /\ athena_workgroup' = FirstV3(workgroups)
            /\ awPc' = "selected"
            /\ UNCHANGED <<workgroups, awCreated>>
       ELSE \E answer \in CreateWorkGroup(workgroups, "omics") :
               /\ workgroups' = answer.list
               /\ athena_workgroup' = IF answer.raised THEN NoWorkgroup
                                      ELSE CreateWorkGroupOutput
               /\ awCreated' = IF answer.raised THEN awCreated ELSE awCreated + 1
               /\ awPc' = IF answer.raised THEN "raised" ELSE "selected"
    /\ UNCHANGED <<notAthenaVars, awWorkgroupArg>>

\* `wr.athena.read_sql_query(..., workgroup=athena_workgroup['Name'])`
ReadSqlQuery ==
    /\ awPc = "selected"
    /\ awWorkgroupArg' = WorkgroupName(athena_workgroup)
    /\ awPc' = IF WorkgroupName(athena_workgroup) \in {"TypeError", "KeyError"}
               THEN "query raised" ELSE "queried"
    /\ UNCHANGED <<notAthenaVars, workgroups, athena_workgroup, awListed, awCreated,
                   awRuns>>

\* The account's workgroups before the cell: up to MaxWorkgroups of them,
\* each name once.
WorkgroupLists ==
    UNION { {l \in [1..n -> [Name : WorkgroupNames, Engine : EngineVersions]] :
                \A i, j \in 1..n : i # j => l[i].Name # l[j].Name} :
            n \in 1..MaxWorkgroups }

AthenaInitVars ==
    /\ workgroups \in WorkgroupLists
    /\ athena_workgroup = NoWorkgroup
    /\ awListed = <<>>
    /\ awCreated = 0
    /\ awRuns = 0
    /\ awWorkgroupArg = None
    /\ awPc = "select"

AthenaInit ==
    /\ StoreIdle /\ SubmitIdle /\ WaitIdle /\ ReadIdle /\ ManifestIdle
    /\ VariantStoreIdle /\ ReadSetIdle /\ RunGroupIdle /\ RunCellIdle /\ AthenaInitVars

AthenaNext == SelectWorkgroup \/ ReadSqlQuery

SpecAthena == AthenaInit /\ [][AthenaNext]_vars

(***************************************************************************)
(* Claims about the Athena workgroup cell                                  *)
(***************************************************************************)
\* C30: after the workgroup cell has ended normally, athena_workgroup
\* names a workgroup of the account that uses engine version 3: the first
\* such workgroup of the list when there was one, otherwise the workgroup
\* omics, just created; and however often the cell is run, at most one
\* workgroup is created.
C30_WorkgroupByName ==
    /\ awCreated <= 1
    /\ awPc = "selected" =>
          /\ \E i \in 1..Len(workgroups) :
                /\ workgroups[i].Name = WorkgroupName(athena_workgroup)
                /\ workgroups[i].Engine = V3
          /\ V3At(awListed) # {} => athena_workgroup = FirstV3(awListed)
          /\ V3At(awListed) = {} => WorkgroupName(athena_workgroup) = "omics"

(***************************************************************************)
(* Claims about the download cell                                          *)
(***************************************************************************)
RECURSIVE SumLen(_)
SumLen(sizes) == IF sizes = <<>> THEN 0 ELSE Head(sizes) + SumLen(Tail(sizes))

\* The latest run of the download cell ended normally.
DownloadDone == dlPc = "idle" /\ dlRuns # <<>> /\ Last(dlRuns) = "done"

DownloadRaised == dlPc = "idle" /\ dlRuns # <<>> /\ Last(dlRuns) = "raised"

\* C11: when the retrieval of part k of a channel has failed for good, the
\* read fails with an error naming part k and the destination of that channel
\* holds exactly parts 1..k-1 (for the cell's part 1: nothing), no placeholder
\* and no bytes of part k.
C11_FailureNamesPartKeepsPrefix ==
    DownloadRaised =>
        LET k == 1 IN
        /\ dlError.part = k
        /\ files[FileOf(dlError.channel)] = PartsUpTo(refParts, dlError.channel, k - 1)

\* C18: when the read of one channel of the reference fails, the read of the
\* other channel still completes, its destination holding that channel byte
\* for byte.
C18_OtherChannelCompletes ==
    DownloadRaised =>
        \A ch \in Channels \ {dlError.channel} :
            files[FileOf(ch)] = Channel(refParts, ch)

(***************************************************************************)
(* Claims about the reference store cell                                   *)
(***************************************************************************)
OnlySession(s) ==
    \A t \in Sessions \ {s} : cellRuns[t] = <<>> /\ cellPc[t] = "idle"

\* C2: running the list-then-create cell twice in sequence (one session, nobody
\* else acting) yields the same store identifier both times and issues at most
\* one create call over the two runs, whether or not a store existed before.
C2_EnsureTwiceSameId ==
    \A s \in Sessions :
        (OnlySession(s) /\ Len(cellRuns[s]) >= 2) =>
            /\ cellRuns[s][1].id # None
            /\ cellRuns[s][1].id = cellRuns[s][2].id
            /\ cellRuns[s][1].creates + cellRuns[s][2].creates <= 1

\* C20: get_ref_store_id returns None whenever no reference store exists, also
\* when the list call answers with an empty list, and the first listed store's
\* id otherwise: no run of the cell ends in the helper's IndexError, a run that
\* found a store reports the first listed one, and every other run went on to
\* the create call.
C20_NoneWhenNoStore ==
    \A s \in Sessions : \A i \in 1..Len(cellRuns[s]) :
        /\ cellRuns[s][i].outcome # "IndexError"
        /\ cellRuns[s][i].outcome = "existing" => cellRuns[s][i].id = refStores[1]
        /\ cellRuns[s][i].outcome # "existing" => cellRuns[s][i].creates = 1

C8_RetryAfterConflict ==
    \A s \in Sessions : \A i \in 1..Len(cellRuns[s]) :
        cellRuns[s][i].outcome = "ClientError" =>
            /\ cellRuns[s][i].creates = 1
            /\ Len(refStores) >= 1
            /\ i < Len(cellRuns[s]) =>
                  /\ cellRuns[s][i + 1].outcome = "existing"
                  /\ cellRuns[s][i + 1].id = refStores[1]
                  /\ cellRuns[s][i + 1].creates = 0

\* C8 witness: a session was refused and has run the cell once more.
C8_Witness ==
    \E s \in Sessions : \E i \in 1..Len(cellRuns[s]) :
        /\ cellRuns[s][i].outcome = "ClientError"
        /\ i < Len(cellRuns[s])
        /\ cellRuns[s][i + 1].outcome = "existing"

====
